---- MODULE Spec2Model ----
(***************************************************************************)
(* Potluck organizer: the relational store (potlucks, categories, items,   *)
(* claims), the per-browser signed-cookie session, and the route handlers  *)
(* of app/main.py and app/routes, each translated from its code together   *)
(* with the app/crud.py functions it calls.                                *)
(*                                                                         *)
(* Columns that no handler reads to take a decision (name, description,    *)
(* display_order, created_by_admin, timestamps) are projected away, except *)
(* Claim.attendee_name, which delete_claim_public compares.  A name that   *)
(* a form submits is kept as its length, which is what it is validated on. *)
(*                                                                         *)
(* A request is served in steps.  It arrives: SessionMiddleware loads its  *)
(* session from the cookie it carries.  Its handler runs: the handlers are *)
(* coroutines without an await in their body, so in one server process a   *)
(* handler runs from its first statement to its return, on the session     *)
(* loaded at arrival and on the store as it is then.  It is answered: the  *)
(* response starts and the middleware sets the cookie.  Between two steps  *)
(* of one request (the body of a POST still on its way, get_db opened or   *)
(* closed in the thread pool) the server takes steps of other requests.    *)
(***************************************************************************)
EXTENDS Integers, Sequences, FiniteSets, Bags, TLC

VARIABLES potlucks, categories, items, claims, max_items, session, inflight

store == <<potlucks, categories, items, claims>>
vars  == <<potlucks, categories, items, claims, max_items, session, inflight>>

(***************************************************************************)
(* Bounds of the model.                                                    *)
(***************************************************************************)
\* Largest claim_limit a form submits.
MaxClaimLimit == 2
\* Largest max_items a form submits.
MaxCeiling == 1
\* Requests the server has read and not answered yet, at most.
MaxInFlight == 2

\* The primary keys in play: requests name them, and an insert that would be
\* given a key outside them is not taken.
Ids         == {1, 2}
\* The values forms submit; 0 is outside the range app/schemas.py accepts.
\* For claim_limit: 0, the smallest accepted value and the largest in play.
ClaimLimits == {0, 1, MaxClaimLimit}
Ceilings    == 0..MaxCeiling
Browsers  == {"b1"}
Slugs     == {"s1", "s2"}
Passwords == {"secret", "wrong"}
Tokens    == {"t1", "t2", "t3"}
\* Python None: a NULL column, a missing session key.
None      == "None"
\* Text is a sequence of characters.
VerifyNames   == {<<"A", " ">>, <<"b">>}
AttendeeNames == {<<" ", "A">>, <<"b">>}
Details       == {<<>>, <<" ">>, <<"p">>}
\* The ClaimUpdate values: a field left out is None.
ClaimUpdates ==
    {<<>>}
    \cup {[attendee_name |-> n] : n \in AttendeeNames}
    \cup {[item_details |-> d] : d \in Details}
    \cup {[attendee_name |-> n, item_details |-> d] : n \in AttendeeNames, d \in Details}
NoText        == <<>>

\* A name is modelled by its length: Field(..., min_length=1, max_length=200).
min_length == 1
max_length == 200
\* The empty name, the longest name accepted and the shortest one refused.
NameLengths == {min_length - 1, max_length, max_length + 1}

\* The forms submitted: a refused name comes with otherwise accepted fields.
ItemForms ==
    {f \in [name : NameLengths, claim_limit : ClaimLimits, require_details : BOOLEAN] :
        f.name = max_length \/ (f.claim_limit = 1 /\ ~f.require_details)}
CategoryForms ==
    {f \in [name : NameLengths, max_items : Ceilings] : f.name = max_length \/ f.max_items = 1}

\* settings.admin_password, read from the environment.
admin_password == "secret"

(***************************************************************************)
(* Python str.strip() and str.lower() on sequences of characters.          *)
(***************************************************************************)
Whitespace == {" "}

RECURSIVE lstrip(_)
lstrip(s) ==
    IF s = <<>> THEN s
    ELSE IF Head(s) \in Whitespace THEN lstrip(Tail(s)) ELSE s

RECURSIVE rstrip(_)
rstrip(s) ==
    IF s = <<>> THEN s
    ELSE IF s[Len(s)] \in Whitespace THEN rstrip(SubSeq(s, 1, Len(s) - 1)) ELSE s

strip(s) == rstrip(lstrip(s))

lower_char(c) == IF c = "A" THEN "a" ELSE IF c = "B" THEN "b" ELSE c

lower(s) == [i \in 1..Len(s) |-> lower_char(s[i])]

(***************************************************************************)
(* The store: each table is a function from primary keys to rows.          *)
(***************************************************************************)
Restrict(table, keys) == [k \in keys |-> table[k]]

Insert(table, id, row) == [k \in DOMAIN table \cup {id} |-> IF k = id THEN row ELSE table[k]]

SetMax(S) == CHOOSE x \in S : \A y \in S : y <= x

\* Integer primary key on the default SQLite store: the largest rowid plus one.
next_id(table) == IF DOMAIN table = {} THEN 1 ELSE SetMax(DOMAIN table) + 1

\* crud.get_potluck_by_slug: the ids of the potlucks with this slug (at most one).
get_potluck_by_slug(url_slug) == {p \in DOMAIN potlucks : potlucks[p].url_slug = url_slug}

\* crud.get_category / get_item / get_claim: is there a row with this id.
get_category(category_id) == category_id \in DOMAIN categories
get_item(item_id)         == item_id \in DOMAIN items
get_claim(claim_id)       == claim_id \in DOMAIN claims

ItemsOf(cs)  == {i \in DOMAIN items : items[i].category_id \in cs}
ClaimsOf(is) == {c \in DOMAIN claims : claims[c].item_id \in is}
CategoriesOf(ps) == {c \in DOMAIN categories : categories[c].potluck_id \in ps}

(***************************************************************************)
(* Sessions, requests and responses.                                       *)
(*                                                                         *)
(* The session lives in a signed cookie.  SessionMiddleware loads it from  *)
(* the cookie the request carries as the request arrives, the handler      *)
(* works on that copy, and as the response starts the middleware sends the *)
(* copy back: a Set-Cookie with the copy when it holds a key, a Set-Cookie *)
(* that clears the cookie when the copy holds none but held one on         *)
(* arrival, and nothing when it was empty both times.  A response that     *)
(* does not pass through the middleware's send wrapper (the 500 made from  *)
(* an exception that is no HTTPException) sets no cookie.                  *)
(*                                                                         *)
(* flash says whether the session holds an "error" or a "success" key: the *)
(* public handlers set one before they redirect and view_potluck pops both.*)
(* Which message it is is carried in the response.                         *)
(***************************************************************************)
EmptySession == [is_admin |-> FALSE, user_session_id |-> None, flash |-> FALSE]

NoFlash == "none"

\* What the browser is answered: the status, the flash message put in the
\* session for the next page, the template rendered (200) and the slug of the
\* potluck create_potluck redirects to.
Resp(status, flash) ==
    [status |-> status, flash |-> flash, template |-> None, slug |-> None]

\* What a handler keeps from one statement to the next: the slug it drew, the
\* primary key of the row it loaded, the form it was sent.
NoArgs ==
    [slug |-> None, id |-> 0, item_details |-> NoText, claim_limit |-> 0,
     require_details |-> FALSE, items |-> {}, claims |-> {}]

\* inflight holds the requests the server has read and not answered, as a
\* bag: two requests of one browser may be alike.  pc is the place the
\* request is at: "arrived" (read, its handler not called yet), a place
\* inside its handler, or "handled" (its handler returned or raised, the
\* response not started yet).  session is request.session; once the request
\* is handled it is the session the cookie is set to, if one is set.
Request(b, request_session) ==
    [b |-> b, pc |-> "arrived", session |-> request_session, sends_cookie |-> FALSE,
     response |-> Resp(0, NoFlash), args |-> NoArgs]

At(r, pc) == BagIn(r, inflight) /\ r.pc = pc

Requests(pc) == {r \in BagToSet(inflight) : r.pc = pc}

Replace(r, q) == (inflight (-) SetToBag({r})) (+) SetToBag({q})

\* SessionMiddleware.send_wrapper on http.response.start: is a Set-Cookie sent.
set_cookie(initial_session, scope_session) ==
    scope_session # EmptySession \/ initial_session # EmptySession

\* The request once its handler has returned response with scope_session left
\* in request.session.
Handled(r, response, scope_session) ==
    LET sends == response.status # 500 /\ set_cookie(r.session, scope_session) IN
    [b |-> r.b, pc |-> "handled",
     session |-> IF sends THEN scope_session ELSE EmptySession,
     sends_cookie |-> sends, response |-> response, args |-> NoArgs]

\* A variant of require_admin that lets every session through.
require_admin_open(request_session) == TRUE

\* require_admin: the dependency every admin route but login and logout declares.
require_admin(request_session) == request_session.is_admin

\* Pydantic constraints of app/schemas.py.
valid_name(name)               == name >= min_length /\ name <= max_length
valid_claim_limit(claim_limit) == claim_limit >= 1 /\ claim_limit <= 100
valid_max_items(m)             == m >= 1 /\ m <= 100

(***************************************************************************)
(* app/crud.py                                                             *)
(***************************************************************************)
\* A variant of generate_url_slug that returns its first draw, unchecked.
generate_url_slug_unchecked == Slugs

\* generate_url_slug: draws until the slug is one no potluck has; the values
\* it can return.  With every slug taken the loop never ends.
generate_url_slug == {slug \in Slugs : get_potluck_by_slug(slug) = {}}

\* create_potluck: db.add + commit of a row with a generated slug; the unique
\* index on url_slug is what the commit is checked against.
unique_url_slug(url_slug) == get_potluck_by_slug(url_slug) = {}

crud_create_potluck(url_slug) == Insert(potlucks, next_id(potlucks), [url_slug |-> url_slug])

\* The rows a delete takes with it: relationship(cascade="all, delete-orphan")
\* from Potluck to Category to Item to Claim.
cascade_categories(ps) == CategoriesOf(ps)
cascade_items(cs)      == ItemsOf(cs)
cascade_claims(is)     == ClaimsOf(is)

StoreWithout(ps, cs, is, cl) ==
    [potlucks   |-> Restrict(potlucks, DOMAIN potlucks \ ps),
     categories |-> Restrict(categories, DOMAIN categories \ cs),
     items      |-> Restrict(items, DOMAIN items \ is),
     claims     |-> Restrict(claims, DOMAIN claims \ cl)]

crud_delete_potluck(p) ==
    LET cs == cascade_categories({p})
        is == cascade_items(cs)
    IN  StoreWithout({p}, cs, is, cascade_claims(is))

crud_delete_category(c) ==
    LET is == cascade_items({c})
    IN  StoreWithout({}, {c}, is, cascade_claims(is))

crud_delete_item(i) == StoreWithout({}, {}, {i}, cascade_claims({i}))

crud_delete_claim(c) == StoreWithout({}, {}, {}, {c})

\* create_category: Category(..., max_items=...) names a keyword the Category
\* model does not declare, which the declarative constructor refuses.
Category_columns ==
    {"id", "potluck_id", "name", "description", "display_order", "potluck", "items"}
create_category_keywords == {"potluck_id", "name", "description", "max_items", "display_order"}
constructor_accepts(columns, keywords) == keywords \subseteq columns

\* create_item: one more row in the category.
crud_create_item(category_id, claim_limit, require_details) ==
    Insert(items, next_id(items),
           [category_id |-> category_id, claim_limit |-> claim_limit,
            require_details |-> require_details])

\* update_item: claim_limit and require_details overwritten, nothing else looked at.
crud_update_item(item_id, claim_limit, require_details) ==
    [items EXCEPT ![item_id].claim_limit = claim_limit,
                  ![item_id].require_details = require_details]

\* can_claim_item
current_claims(item_id) == Cardinality(ClaimsOf({item_id}))

\* A variant of can_claim_item that compares with <= instead of <.
can_claim_item_off_by_one(item_id) ==
    /\ get_item(item_id)
    /\ current_claims(item_id) <= items[item_id].claim_limit

can_claim_item(item_id) ==
    /\ get_item(item_id)
    /\ current_claims(item_id) < items[item_id].claim_limit

\* create_claim(db, item, claim_data): the row it adds carries no session_id.
create_claim_parameters == {"db", "item", "claim_data"}

crud_create_claim(item_id, attendee_name, item_details) ==
    Insert(claims, next_id(claims),
           [item_id |-> item_id, attendee_name |-> attendee_name,
            item_details |-> item_details, session_id |-> None])

\* update_claim: the fields the ClaimUpdate carries are overwritten; a field
\* that is None is left out of claim_data here and keeps its value.
crud_update_claim(claim_id, claim_data) ==
    [claims EXCEPT ![claim_id] =
        [f \in DOMAIN @ |-> IF f \in DOMAIN claim_data THEN claim_data[f] ELSE @[f]]]

(***************************************************************************)
(* The state the process starts from on a new database: init_db creates    *)
(* four empty tables, and the first request carries no cookie.             *)
(***************************************************************************)
Init ==
    /\ potlucks   = <<>>
    /\ categories = <<>>
    /\ items      = <<>>
    /\ claims     = <<>>
    /\ max_items  = <<>>
    /\ session    = [b \in Browsers |-> EmptySession]
    /\ inflight   = EmptyBag

(***************************************************************************)
(* Rows given to the handlers as input.  No route of this code can write a *)
(* category (add_category always fails), hence no item and no claim, and   *)
(* no request leaves a user_session_id in a cookie (claim_item never       *)
(* completes): from Init every request on a category, an item or a claim   *)
(* ends 404.  What the handlers do with such rows is checked on stores     *)
(* written directly through app/models.py, as a fixture does: one potluck  *)
(* with one category and one item, holding up to claim_limit claims        *)
(* stamped with this browser's token, with another browser's or with none, *)
(* and every invariant of the data model true of them: the claim with      *)
(* blank details is there only when the item does not require details.  No *)
(* max_items has been submitted for the category (0).  The cookie holds    *)
(* the token or none.                                                      *)
(***************************************************************************)
SeedClaim(n, session_id) ==
    [item_id       |-> 1,
     attendee_name |-> IF n = 1 THEN <<" ", "A">> ELSE <<"b">>,
     item_details  |-> IF n = 1 THEN <<" ">> ELSE <<"p">>,
     session_id    |-> IF n = 1 THEN "t1" ELSE session_id]

CookieTokens == {None, "t1"}

FixtureWith(tokens) ==
    /\ \E n \in Ids : potlucks = [p \in 1..n |-> [url_slug |-> IF p = 1 THEN "s1" ELSE "s2"]]
    /\ categories = (1 :> [potluck_id |-> 1])
    /\ max_items  = (1 :> 0)
    /\ \E lim \in ClaimLimits \ {0}, req \in BOOLEAN :
          /\ items = (1 :> [category_id |-> 1, claim_limit |-> lim, require_details |-> req])
          /\ \E k \in Ids \cup {0}, owner \in {None, "t2"} :
                /\ k <= lim
                /\ \A n \in 1..k : req => strip(SeedClaim(n, owner).item_details) # <<>>
                /\ claims = [n \in 1..k |-> SeedClaim(n, owner)]
    /\ \E token \in tokens :
          session = [b \in Browsers |-> [EmptySession EXCEPT !.user_session_id = token]]
    /\ inflight = EmptyBag

\* The rows, and a browser that may have claimed before.
Fixture == FixtureWith(CookieTokens)

\* The rows, and a browser that never claimed.
AdminFixture == FixtureWith({None})

(***************************************************************************)
(* What the steps of a request are made of.                                *)
(***************************************************************************)
SetStore(st) ==
    /\ potlucks'   = st.potlucks
    /\ categories' = st.categories
    /\ items'      = st.items
    /\ claims'     = st.claims
    /\ max_items'  = Restrict(max_items, DOMAIN st.categories)

\* The handler returns (or raises): the response is made and waits to be sent.
Return(r, response, scope_session) ==
    /\ inflight' = Replace(r, Handled(r, response, scope_session))
    /\ UNCHANGED session

\* templates.TemplateResponse(template, ...)
Rendered(r, template, scope_session) ==
    Return(r, [Resp(200, NoFlash) EXCEPT !.template = template], scope_session)

\* request.session["error"] = ... / ["success"] = ...
Flashed(request_session, flash) ==
    IF flash = NoFlash THEN request_session ELSE [request_session EXCEPT !.flash = TRUE]

\* A response that leaves every row as it was.
Rejected(r, status, flash) ==
    /\ Return(r, Resp(status, flash), Flashed(r.session, flash))
    /\ UNCHANGED <<store, max_items>>

\* The handler goes on to its next statement, which it runs in a later step.
Continue(r, pc, args) ==
    /\ inflight' = Replace(r, [r EXCEPT !.pc = pc, !.args = args])
    /\ UNCHANGED session

\* A request arrives: SessionMiddleware loads its session from the cookie.
arrive(b) ==
    /\ BagCardinality(inflight) < MaxInFlight
    /\ inflight' = inflight (+) SetToBag({Request(b, session[b])})
    /\ UNCHANGED <<store, max_items, session>>

\* The response of a handled request starts: the browser gets r.response and
\* the cookie the middleware sets.
answer(r) ==
    /\ At(r, "handled")
    /\ inflight' = inflight (-) SetToBag({r})
    /\ session' = IF r.sends_cookie THEN [session EXCEPT ![r.b] = r.session] ELSE session
    /\ UNCHANGED <<store, max_items>>

(***************************************************************************)
(* app/main.py                                                             *)
(***************************************************************************)
\* GET /
index(r) ==
    /\ At(r, "arrived")
    /\ Rendered(r, "index.html", r.session)
    /\ UNCHANGED <<store, max_items>>

\* GET /health
health_check(r) ==
    /\ At(r, "arrived")
    /\ Return(r, Resp(200, NoFlash), r.session)
    /\ UNCHANGED <<store, max_items>>

(***************************************************************************)
(* app/routes/admin.py                                                     *)
(***************************************************************************)
\* POST /admin/login
admin_login(r, password) ==
    /\ At(r, "arrived")
    /\ IF password = admin_password
          THEN Return(r, Resp(303, NoFlash), [r.session EXCEPT !.is_admin = TRUE])
          ELSE Rendered(r, "index.html", r.session)
    /\ UNCHANGED <<store, max_items>>

\* GET /admin/logout: request.session.clear()
admin_logout(r) ==
    /\ At(r, "arrived")
    /\ Return(r, Resp(303, NoFlash), EmptySession)
    /\ UNCHANGED <<store, max_items>>

\* GET /admin/dashboard
admin_dashboard(r) ==
    /\ At(r, "arrived")
    /\ IF ~require_admin(r.session) THEN Rejected(r, 403, NoFlash)
       ELSE /\ Rendered(r, "admin/dashboard.html", r.session)
            /\ UNCHANGED <<store, max_items>>

\* GET /admin/create
show_create_potluck(r) ==
    /\ At(r, "arrived")
    /\ IF ~require_admin(r.session) THEN Rejected(r, 403, NoFlash)
       ELSE /\ Rendered(r, "admin/create_potluck.html", r.session)
            /\ UNCHANGED <<store, max_items>>

\* POST /admin/create
create_potluck(r, name) ==
    /\ At(r, "arrived")
    /\ IF ~require_admin(r.session) THEN Rejected(r, 403, NoFlash)
       ELSE IF ~valid_name(name) THEN Rejected(r, 500, NoFlash)
       ELSE \E url_slug \in generate_url_slug :
            /\ next_id(potlucks) \in Ids
            /\ IF ~unique_url_slug(url_slug) THEN Rejected(r, 500, NoFlash)
               ELSE /\ potlucks' = crud_create_potluck(url_slug)
                    /\ Return(r, [Resp(303, NoFlash) EXCEPT !.slug = url_slug], r.session)
                    /\ UNCHANGED <<categories, items, claims, max_items>>

\* GET /admin/edit/{url_slug}
show_edit_potluck(r, url_slug) ==
    /\ At(r, "arrived")
    /\ IF ~require_admin(r.session) THEN Rejected(r, 403, NoFlash)
       ELSE IF get_potluck_by_slug(url_slug) = {} THEN Rejected(r, 404, NoFlash)
       ELSE /\ Rendered(r, "admin/edit_potluck.html", r.session)
            /\ UNCHANGED <<store, max_items>>

\* POST /admin/edit/{url_slug}: name and description rewritten, url_slug kept.
update_potluck(r, url_slug, name) ==
    /\ At(r, "arrived")
    /\ IF ~require_admin(r.session) THEN Rejected(r, 403, NoFlash)
       ELSE IF get_potluck_by_slug(url_slug) = {} THEN Rejected(r, 404, NoFlash)
       ELSE IF ~valid_name(name) THEN Rejected(r, 500, NoFlash)
       ELSE Rejected(r, 303, NoFlash)

\* POST /admin/edit/{url_slug}/add-category
add_category(r, url_slug, name) ==
    /\ At(r, "arrived")
    /\ IF ~require_admin(r.session) THEN Rejected(r, 403, NoFlash)
       ELSE IF get_potluck_by_slug(url_slug) = {} THEN Rejected(r, 404, NoFlash)
       ELSE IF ~valid_name(name) THEN Rejected(r, 500, NoFlash)
       ELSE IF ~constructor_accepts(Category_columns, create_category_keywords)
               THEN Rejected(r, 500, NoFlash)
       ELSE LET p == CHOOSE p \in get_potluck_by_slug(url_slug) : TRUE IN
            /\ next_id(categories) \in Ids
            /\ categories' = Insert(categories, next_id(categories), [potluck_id |-> p])
            /\ max_items' = Insert(max_items, next_id(categories), 0)
            /\ Return(r, Resp(303, NoFlash), r.session)
            /\ UNCHANGED <<potlucks, items, claims>>

\* POST /admin/edit/{url_slug}/category/{category_id}/update: max_items is set on
\* the loaded object and goes nowhere, Category having no such column; the
\* variable max_items remembers what was submitted and accepted.
update_category(r, url_slug, category_id, name, m) ==
    /\ At(r, "arrived")
    /\ IF ~require_admin(r.session) THEN Rejected(r, 403, NoFlash)
       ELSE IF ~get_category(category_id) THEN Rejected(r, 404, NoFlash)
       ELSE IF ~valid_name(name) \/ ~valid_max_items(m) THEN Rejected(r, 500, NoFlash)
       ELSE /\ max_items' = [max_items EXCEPT ![category_id] = m]
            /\ Return(r, Resp(303, NoFlash), r.session)
            /\ UNCHANGED store

\* POST /admin/edit/{url_slug}/category/{category_id}/delete
delete_category(r, url_slug, category_id) ==
    /\ At(r, "arrived")
    /\ IF ~require_admin(r.session) THEN Rejected(r, 403, NoFlash)
       ELSE IF ~get_category(category_id) THEN Rejected(r, 404, NoFlash)
       ELSE /\ SetStore(crud_delete_category(category_id))
            /\ Return(r, Resp(303, NoFlash), r.session)

\* POST /admin/edit/{url_slug}/category/{category_id}/add-item
add_item(r, url_slug, category_id, name, claim_limit, require_details) ==
    /\ At(r, "arrived")
    /\ IF ~require_admin(r.session) THEN Rejected(r, 403, NoFlash)
       ELSE IF ~get_category(category_id) THEN Rejected(r, 404, NoFlash)
       ELSE IF ~valid_name(name) \/ ~valid_claim_limit(claim_limit)
               THEN Rejected(r, 500, NoFlash)
       ELSE /\ next_id(items) \in Ids
            /\ items' = crud_create_item(category_id, claim_limit, require_details)
            /\ Return(r, Resp(303, NoFlash), r.session)
            /\ UNCHANGED <<potlucks, categories, claims, max_items>>

\* POST /admin/edit/{url_slug}/item/{item_id}/update
update_item(r, url_slug, item_id, name, claim_limit, require_details) ==
    /\ At(r, "arrived")
    /\ IF ~require_admin(r.session) THEN Rejected(r, 403, NoFlash)
       ELSE IF ~get_item(item_id) THEN Rejected(r, 404, NoFlash)
       ELSE IF ~valid_name(name) \/ ~valid_claim_limit(claim_limit)
               THEN Rejected(r, 500, NoFlash)
       ELSE /\ items' = crud_update_item(item_id, claim_limit, require_details)
            /\ Return(r, Resp(303, NoFlash), r.session)
            /\ UNCHANGED <<potlucks, categories, claims, max_items>>

\* POST /admin/edit/{url_slug}/item/{item_id}/delete
delete_item(r, url_slug, item_id) ==
    /\ At(r, "arrived")
    /\ IF ~require_admin(r.session) THEN Rejected(r, 403, NoFlash)
       ELSE IF ~get_item(item_id) THEN Rejected(r, 404, NoFlash)
       ELSE /\ SetStore(crud_delete_item(item_id))
            /\ Return(r, Resp(303, NoFlash), r.session)

\* POST /admin/edit/{url_slug}/claim/{claim_id}/delete
delete_claim_admin(r, url_slug, claim_id) ==
    /\ At(r, "arrived")
    /\ IF ~require_admin(r.session) THEN Rejected(r, 403, NoFlash)
       ELSE IF ~get_claim(claim_id) THEN Rejected(r, 404, NoFlash)
       ELSE /\ SetStore(crud_delete_claim(claim_id))
            /\ Return(r, Resp(303, NoFlash), r.session)

\* POST /admin/delete/{url_slug}
delete_potluck(r, url_slug) ==
    /\ At(r, "arrived")
    /\ IF ~require_admin(r.session) THEN Rejected(r, 403, NoFlash)
       ELSE IF get_potluck_by_slug(url_slug) = {} THEN Rejected(r, 404, NoFlash)
       ELSE LET p == CHOOSE p \in get_potluck_by_slug(url_slug) : TRUE IN
            /\ SetStore(crud_delete_potluck(p))
            /\ Return(r, Resp(303, NoFlash), r.session)

(***************************************************************************)
(* app/routes/potluck.py                                                   *)
(***************************************************************************)
\* GET /p/{url_slug}: pops the flash messages to show them.
view_potluck(r, url_slug) ==
    /\ At(r, "arrived")
    /\ IF get_potluck_by_slug(url_slug) = {} THEN Rejected(r, 404, NoFlash)
       ELSE /\ Rendered(r, "potluck/view.html", [r.session EXCEPT !.flash = FALSE])
            /\ UNCHANGED <<store, max_items>>

\* A variant of details_missing that does not strip the text.
details_missing_no_strip(item_id, item_details) ==
    /\ items[item_id].require_details
    /\ item_details = <<>>

\* claim_item: item.require_details and not item_details.strip()
details_missing(item_id, item_details) ==
    /\ items[item_id].require_details
    /\ strip(item_details) = <<>>

\* claim_item: the token of this browser, a new one when the session has none.
attendee_token(request_session, fresh) ==
    IF request_session.user_session_id = None THEN fresh ELSE request_session.user_session_id

\* claim_item calls crud.create_claim(db, item, claim_data, session_id=session_id).
claim_item_keywords == {"session_id"}
call_binds(parameters, keywords) == keywords \subseteq parameters

\* secrets.token_urlsafe(32): a token no cookie, no request and no claim holds.
UnusedTokens ==
    Tokens \ ({session[b].user_session_id : b \in Browsers}
              \cup {q.session.user_session_id : q \in BagToSet(inflight)}
              \cup {claims[c].session_id : c \in DOMAIN claims})

\* claim_item from the call of crud.create_claim on: the TypeError the call
\* raises is no HTTPException, so the token written into the session just
\* before is not sent back to the browser.
claim_item_create(r, item_id, item_details) ==
    IF ~call_binds(create_claim_parameters, claim_item_keywords)
       THEN Rejected(r, 500, NoFlash)
    ELSE \E attendee_name \in AttendeeNames, fresh \in UnusedTokens :
         /\ next_id(claims) \in Ids
         /\ claims' = crud_create_claim(item_id, attendee_name, item_details)
         /\ Return(r, Resp(303, "success:claimed"),
                   [r.session EXCEPT !.user_session_id = attendee_token(r.session, fresh),
                                     !.flash = TRUE])
         /\ UNCHANGED <<potlucks, categories, items, max_items>>

\* POST /p/{url_slug}/claim/{item_id}
claim_item(r, url_slug, item_id, item_details) ==
    /\ At(r, "arrived")
    /\ IF get_potluck_by_slug(url_slug) = {} THEN Rejected(r, 404, NoFlash)
       ELSE IF ~get_item(item_id) THEN Rejected(r, 404, NoFlash)
       ELSE IF ~can_claim_item(item_id) THEN Rejected(r, 303, "error:full")
       ELSE IF details_missing(item_id, item_details) THEN Rejected(r, 303, "error:details")
       ELSE claim_item_create(r, item_id, item_details)

\* A variant of session_mismatch that compares the tokens without asking for one.
session_mismatch_compare_only(request_session, claim_id) ==
    claims[claim_id].session_id # request_session.user_session_id

\* delete_claim_public: not user_session_id or claim.session_id != user_session_id
session_mismatch(request_session, claim_id) ==
    \/ request_session.user_session_id = None
    \/ claims[claim_id].session_id # request_session.user_session_id

\* delete_claim_public: claim.attendee_name.strip().lower() != verify_name.strip().lower()
name_mismatch(claim_id, verify_name) ==
    lower(strip(claims[claim_id].attendee_name)) # lower(strip(verify_name))

\* POST /p/{url_slug}/claim/{claim_id}/delete
delete_claim_public(r, url_slug, claim_id, verify_name) ==
    /\ At(r, "arrived")
    /\ IF get_potluck_by_slug(url_slug) = {} THEN Rejected(r, 404, NoFlash)
       ELSE IF ~get_claim(claim_id) THEN Rejected(r, 404, NoFlash)
       ELSE IF session_mismatch(r.session, claim_id) THEN Rejected(r, 303, "error:own")
       ELSE IF name_mismatch(claim_id, verify_name) THEN Rejected(r, 303, "error:name")
       ELSE /\ SetStore(crud_delete_claim(claim_id))
            /\ Return(r, Resp(303, "success:removed"), Flashed(r.session, "success:removed"))

(***************************************************************************)
(* Several server processes on the same database.  Each statement a        *)
(* handler sends reads or commits on its own and nothing holds a lock from *)
(* one statement to the next, so between two statements of a handler in    *)
(* one process a handler in another process may run its own.  The handlers *)
(* below are cut where they send a statement whose outcome another process *)
(* can change; a request keeps in args what its handler holds in local     *)
(* variables.                                                              *)
(***************************************************************************)
\* create_potluck up to the return of generate_url_slug (admin.py:102,
\* crud.py:20-36).
create_potluck_draw(r, name) ==
    /\ At(r, "arrived")
    /\ IF ~require_admin(r.session) THEN Rejected(r, 403, NoFlash)
       ELSE IF ~valid_name(name) THEN Rejected(r, 500, NoFlash)
       ELSE \E url_slug \in generate_url_slug :
            /\ Continue(r, "create_potluck", [NoArgs EXCEPT !.slug = url_slug])
            /\ UNCHANGED <<store, max_items>>

\* db.add and db.commit (crud.py:37-38): the commit is refused by the unique
\* index when the slug was taken meanwhile, and neither crud.create_potluck
\* nor the route catches that.
create_potluck_commit(r) ==
    /\ At(r, "create_potluck")
    /\ IF ~unique_url_slug(r.args.slug) THEN Rejected(r, 500, NoFlash)
       ELSE /\ next_id(potlucks) \in Ids
            /\ potlucks' = crud_create_potluck(r.args.slug)
            /\ Continue(r, "create_refresh", [r.args EXCEPT !.id = next_id(potlucks)])
            /\ UNCHANGED <<categories, items, claims, max_items>>

\* db.refresh (crud.py:39) and the redirect to the slug it read
\* (admin.py:106-108): the refresh raises when the row is gone.
create_potluck_refresh(r) ==
    /\ At(r, "create_refresh")
    /\ IF r.args.id \notin DOMAIN potlucks THEN Rejected(r, 500, NoFlash)
       ELSE /\ Return(r, [Resp(303, NoFlash) EXCEPT !.slug = potlucks[r.args.id].url_slug],
                      r.session)
            /\ UNCHANGED <<store, max_items>>

\* update_potluck up to the call of crud.update_potluck (admin.py:143-147).
update_potluck_lookup(r, url_slug, name) ==
    /\ At(r, "arrived")
    /\ IF ~require_admin(r.session) THEN Rejected(r, 403, NoFlash)
       ELSE IF get_potluck_by_slug(url_slug) = {} THEN Rejected(r, 404, NoFlash)
       ELSE IF ~valid_name(name) THEN Rejected(r, 500, NoFlash)
       ELSE LET p == CHOOSE p \in get_potluck_by_slug(url_slug) : TRUE IN
            /\ Continue(r, "update_potluck", [NoArgs EXCEPT !.id = p])
            /\ UNCHANGED <<store, max_items>>

\* db.commit (crud.py:59): the UPDATE of a row that is gone raises, and a
\* form that changes nothing sends no UPDATE, the refresh then raises.
update_potluck_commit(r) ==
    /\ At(r, "update_potluck")
    /\ IF r.args.id \notin DOMAIN potlucks THEN Rejected(r, 500, NoFlash)
       ELSE /\ Continue(r, "update_refresh", r.args)
            /\ UNCHANGED <<store, max_items>>

\* db.refresh (crud.py:60) and the redirect (admin.py:150).
update_potluck_refresh(r) ==
    /\ At(r, "update_refresh")
    /\ IF r.args.id \notin DOMAIN potlucks THEN Rejected(r, 500, NoFlash)
       ELSE Rejected(r, 303, NoFlash)

\* delete_potluck up to the call of crud.delete_potluck (admin.py:314-316).
delete_potluck_lookup(r, url_slug) ==
    /\ At(r, "arrived")
    /\ IF ~require_admin(r.session) THEN Rejected(r, 403, NoFlash)
       ELSE IF get_potluck_by_slug(url_slug) = {} THEN Rejected(r, 404, NoFlash)
       ELSE LET p == CHOOSE p \in get_potluck_by_slug(url_slug) : TRUE IN
            /\ Continue(r, "delete_potluck", [NoArgs EXCEPT !.id = p])
            /\ UNCHANGED <<store, max_items>>

\* db.delete and db.commit (crud.py:66-67): DELETE by primary key; when no row
\* has that key any more the ORM warns and the request goes on.  The rows
\* beneath are those db.delete loads, and from a new database there is none.
delete_potluck_commit(r) ==
    /\ At(r, "delete_potluck")
    /\ SetStore(crud_delete_potluck(r.args.id))
    /\ Return(r, Resp(303, NoFlash), r.session)

\* claim_item: crud.get_potluck_by_slug (potluck.py:77-79).
claim_item_lookup(r, url_slug, item_id, item_details) ==
    /\ At(r, "arrived")
    /\ IF get_potluck_by_slug(url_slug) = {} THEN Rejected(r, 404, NoFlash)
       ELSE /\ Continue(r, "claim_get_item",
                        [NoArgs EXCEPT !.slug = url_slug, !.id = item_id,
                                       !.item_details = item_details])
            /\ UNCHANGED <<store, max_items>>

\* claim_item: crud.get_item (potluck.py:82-84).  The handler holds the item
\* it has loaded: its claim_limit and require_details are read from it from
\* here on.
claim_item_get_item(r) ==
    /\ At(r, "claim_get_item")
    /\ IF ~get_item(r.args.id) THEN Rejected(r, 404, NoFlash)
       ELSE /\ Continue(r, "claim_can_claim",
                        [r.args EXCEPT !.claim_limit = items[r.args.id].claim_limit,
                                       !.require_details = items[r.args.id].require_details])
            /\ UNCHANGED <<store, max_items>>

\* crud.can_claim_item selects the item again (crud.py:176-178): when the row
\* is gone it returns False and the handler answers that the item is fully
\* claimed (potluck.py:87-89).  When the row is there the session gives back
\* the item it holds, with the columns loaded before.
claim_item_can_claim(r) ==
    /\ At(r, "claim_can_claim")
    /\ IF ~get_item(r.args.id) THEN Rejected(r, 303, "error:full")
       ELSE /\ Continue(r, "claim_count", r.args)
            /\ UNCHANGED <<store, max_items>>

\* crud.can_claim_item counts the claims (crud.py:180-181), then the handler
\* checks the details (potluck.py:87-94).
claim_item_count(r) ==
    /\ At(r, "claim_count")
    /\ IF ~(current_claims(r.args.id) < r.args.claim_limit)
          THEN Rejected(r, 303, "error:full")
       ELSE IF r.args.require_details /\ strip(r.args.item_details) = <<>>
          THEN Rejected(r, 303, "error:details")
       ELSE /\ Continue(r, "claim_item", r.args)
            /\ UNCHANGED <<store, max_items>>

\* claim_item from the call of crud.create_claim on (potluck.py:96-108).
claim_item_insert(r) ==
    /\ At(r, "claim_item")
    /\ claim_item_create(r, r.args.id, r.args.item_details)

\* add_item up to the call of crud.create_item (admin.py:229-238).
add_item_lookup(r, url_slug, category_id, name, claim_limit, require_details) ==
    /\ At(r, "arrived")
    /\ IF ~require_admin(r.session) THEN Rejected(r, 403, NoFlash)
       ELSE IF ~get_category(category_id) THEN Rejected(r, 404, NoFlash)
       ELSE IF ~valid_name(name) \/ ~valid_claim_limit(claim_limit)
               THEN Rejected(r, 500, NoFlash)
       ELSE /\ Continue(r, "add_item",
                        [NoArgs EXCEPT !.id = category_id, !.claim_limit = claim_limit,
                                       !.require_details = require_details])
            /\ UNCHANGED <<store, max_items>>

\* crud.create_item up to db.commit (crud.py:134-143): INSERT of a row naming
\* the category id read before.  database.py opens the default SQLite store
\* without PRAGMA foreign_keys, so the insert is not checked against
\* categories.  The request keeps the primary key of its row.
add_item_insert(r) ==
    /\ At(r, "add_item")
    /\ next_id(items) \in Ids
    /\ items' = crud_create_item(r.args.id, r.args.claim_limit, r.args.require_details)
    /\ Continue(r, "add_item_refresh", [r.args EXCEPT !.id = next_id(items)])
    /\ UNCHANGED <<potlucks, categories, claims, max_items>>

\* db.refresh (crud.py:144): SELECT by primary key; when the row is gone the
\* refresh raises and the request ends 500.  Then the redirect of admin.py:241.
add_item_refresh(r) ==
    /\ At(r, "add_item_refresh")
    /\ IF ~get_item(r.args.id) THEN Rejected(r, 500, NoFlash)
       ELSE Rejected(r, 303, NoFlash)

\* delete_category up to the call of crud.delete_category (admin.py:207-209).
delete_category_lookup(r, url_slug, category_id) ==
    /\ At(r, "arrived")
    /\ IF ~require_admin(r.session) THEN Rejected(r, 403, NoFlash)
       ELSE IF ~get_category(category_id) THEN Rejected(r, 404, NoFlash)
       ELSE /\ Continue(r, "delete_category", [NoArgs EXCEPT !.id = category_id])
            /\ UNCHANGED <<store, max_items>>

\* db.delete (crud.py:112): the cascade loads the items of the category and
\* the claims of these items, to delete them with it.
delete_category_load(r) ==
    /\ At(r, "delete_category")
    /\ Continue(r, "delete_commit",
                [r.args EXCEPT !.items = cascade_items({r.args.id}),
                               !.claims = cascade_claims(cascade_items({r.args.id}))])
    /\ UNCHANGED <<store, max_items>>

\* db.commit (crud.py:113): DELETE by primary key of the rows loaded and of the
\* category, in one transaction; a row that is gone already is skipped with
\* a warning, and a row that came after the load is not looked at.
delete_category_commit(r) ==
    /\ At(r, "delete_commit")
    /\ SetStore(StoreWithout({}, {r.args.id}, r.args.items, r.args.claims))
    /\ Return(r, Resp(303, NoFlash), r.session)

\* A direct call of crud.update_claim (crud.py:203-212): no route calls it.
update_claim(claim_id, claim_data) ==
    /\ claim_id \in DOMAIN claims
    /\ claims' = crud_update_claim(claim_id, claim_data)
    /\ UNCHANGED <<potlucks, categories, items, max_items, session, inflight>>

(***************************************************************************)
(* The program from a new database, every route.  No route can write a     *)
(* category (add_category always fails), so only the potlucks table ever   *)
(* holds rows: the three handlers that write it are taken statement by     *)
(* statement, and every other handler sends one statement that decides     *)
(* its response, so the steps are those of any number of server processes. *)
(***************************************************************************)
Next ==
    \/ \E b \in Browsers : arrive(b)
    \/ \E r \in Requests("handled") : answer(r)
    \/ \E r \in Requests("arrived") : index(r)
    \/ \E r \in Requests("arrived") : health_check(r)
    \/ \E r \in Requests("arrived"), password \in Passwords : admin_login(r, password)
    \/ \E r \in Requests("arrived") : admin_logout(r)
    \/ \E r \in Requests("arrived") : admin_dashboard(r)
    \/ \E r \in Requests("arrived") : show_create_potluck(r)
    \/ \E r \in Requests("arrived"), name \in NameLengths : create_potluck_draw(r, name)
    \/ \E r \in Requests("arrived"), url_slug \in Slugs : show_edit_potluck(r, url_slug)
    \/ \E r \in Requests("arrived"), url_slug \in Slugs, name \in NameLengths :
          update_potluck_lookup(r, url_slug, name)
    \/ \E r \in Requests("arrived"), url_slug \in Slugs, name \in NameLengths :
          add_category(r, url_slug, name)
    \/ \E r \in Requests("arrived"), url_slug \in Slugs, id \in Ids, form \in CategoryForms :
          update_category(r, url_slug, id, form.name, form.max_items)
    \/ \E r \in Requests("arrived"), url_slug \in Slugs, id \in Ids :
          delete_category(r, url_slug, id)
    \/ \E r \in Requests("arrived"), url_slug \in Slugs, id \in Ids, form \in ItemForms :
          add_item(r, url_slug, id, form.name, form.claim_limit, form.require_details)
    \/ \E r \in Requests("arrived"), url_slug \in Slugs, id \in Ids, form \in ItemForms :
          update_item(r, url_slug, id, form.name, form.claim_limit, form.require_details)
    \/ \E r \in Requests("arrived"), url_slug \in Slugs, id \in Ids : delete_item(r, url_slug, id)
    \/ \E r \in Requests("arrived"), url_slug \in Slugs, id \in Ids :
          delete_claim_admin(r, url_slug, id)
    \/ \E r \in Requests("arrived"), url_slug \in Slugs : delete_potluck_lookup(r, url_slug)
    \/ \E r \in Requests("arrived"), url_slug \in Slugs : view_potluck(r, url_slug)
    \/ \E r \in Requests("arrived"), url_slug \in Slugs, id \in Ids, item_details \in Details :
          claim_item(r, url_slug, id, item_details)
    \/ \E r \in Requests("arrived"), url_slug \in Slugs, id \in Ids, verify_name \in VerifyNames :
          delete_claim_public(r, url_slug, id, verify_name)
    \/ \E r \in Requests("create_potluck") : create_potluck_commit(r)
    \/ \E r \in Requests("create_refresh") : create_potluck_refresh(r)
    \/ \E r \in Requests("update_potluck") : update_potluck_commit(r)
    \/ \E r \in Requests("update_refresh") : update_potluck_refresh(r)
    \/ \E r \in Requests("delete_potluck") : delete_potluck_commit(r)

Spec == Init /\ [][Next]_vars

(***************************************************************************)
(* Request mixes on rows given as input, in one server process: a handler  *)
(* runs from its first statement to its return in one step.  The stores an *)
(* admin can build and the sessions a browser can hold multiply, so the    *)
(* handlers are run on the fixture rows one mix at a time: the routes of   *)
(* app/routes/admin.py, and the routes that read, write or remove the      *)
(* claims of an item.                                                      *)
(***************************************************************************)
AdminNext ==
    \/ \E b \in Browsers : arrive(b)
    \/ \E r \in Requests("handled") : answer(r)
    \/ \E r \in Requests("arrived"), password \in Passwords : admin_login(r, password)
    \/ \E r \in Requests("arrived") : admin_logout(r)
    \/ \E r \in Requests("arrived") : admin_dashboard(r)
    \/ \E r \in Requests("arrived") : show_create_potluck(r)
    \/ \E r \in Requests("arrived"), name \in NameLengths : create_potluck(r, name)
    \/ \E r \in Requests("arrived"), url_slug \in Slugs : show_edit_potluck(r, url_slug)
    \/ \E r \in Requests("arrived"), url_slug \in Slugs, name \in NameLengths :
          update_potluck(r, url_slug, name)
    \/ \E r \in Requests("arrived"), url_slug \in Slugs, name \in NameLengths :
          add_category(r, url_slug, name)
    \/ \E r \in Requests("arrived"), url_slug \in Slugs, id \in Ids, form \in CategoryForms :
          update_category(r, url_slug, id, form.name, form.max_items)
    \/ \E r \in Requests("arrived"), url_slug \in Slugs, id \in Ids :
          delete_category(r, url_slug, id)
    \/ \E r \in Requests("arrived"), url_slug \in Slugs, id \in Ids, form \in ItemForms :
          add_item(r, url_slug, id, form.name, form.claim_limit, form.require_details)
    \/ \E r \in Requests("arrived"), url_slug \in Slugs, id \in Ids, form \in ItemForms :
          update_item(r, url_slug, id, form.name, form.claim_limit, form.require_details)
    \/ \E r \in Requests("arrived"), url_slug \in Slugs, id \in Ids : delete_item(r, url_slug, id)
    \/ \E r \in Requests("arrived"), url_slug \in Slugs, id \in Ids :
          delete_claim_admin(r, url_slug, id)
    \/ \E r \in Requests("arrived"), url_slug \in Slugs : delete_potluck(r, url_slug)

\* The routes of app/routes/potluck.py, with the admin routes that change what
\* they look at: the login and the logout, the item update, and the deletes
\* of a claim, an item, a category and a potluck.
ItemNext ==
    \/ \E b \in Browsers : arrive(b)
    \/ \E r \in Requests("handled") : answer(r)
    \/ \E r \in Requests("arrived"), password \in Passwords : admin_login(r, password)
    \/ \E r \in Requests("arrived") : admin_logout(r)
    \/ \E r \in Requests("arrived"), url_slug \in Slugs, id \in Ids, form \in ItemForms :
          update_item(r, url_slug, id, form.name, form.claim_limit, form.require_details)
    \/ \E r \in Requests("arrived"), url_slug \in Slugs, id \in Ids :
          delete_claim_admin(r, url_slug, id)
    \/ \E r \in Requests("arrived"), url_slug \in Slugs, id \in Ids : delete_item(r, url_slug, id)
    \/ \E r \in Requests("arrived"), url_slug \in Slugs, id \in Ids :
          delete_category(r, url_slug, id)
    \/ \E r \in Requests("arrived"), url_slug \in Slugs : delete_potluck(r, url_slug)
    \/ \E r \in Requests("arrived"), url_slug \in Slugs : view_potluck(r, url_slug)
    \/ \E r \in Requests("arrived"), url_slug \in Slugs, id \in Ids, item_details \in Details :
          claim_item(r, url_slug, id, item_details)
    \/ \E r \in Requests("arrived"), url_slug \in Slugs, id \in Ids, verify_name \in VerifyNames :
          delete_claim_public(r, url_slug, id, verify_name)

\* The admin routes on stores given as input.
AdminSpec == AdminFixture /\ [][AdminNext]_vars

\* The claim routes on stores given as input.
ItemSpec == Fixture /\ [][ItemNext]_vars

(***************************************************************************)
(* Several server processes on rows given as input: the claim request, the *)
(* item creation and the category delete taken statement by statement.     *)
(***************************************************************************)
RaceNext ==
    \/ \E b \in Browsers : arrive(b)
    \/ \E r \in Requests("handled") : answer(r)
    \/ \E r \in Requests("arrived"), password \in Passwords : admin_login(r, password)
    \/ \E r \in Requests("arrived"), url_slug \in Slugs, id \in Ids, item_details \in Details :
          claim_item_lookup(r, url_slug, id, item_details)
    \/ \E r \in Requests("claim_get_item") : claim_item_get_item(r)
    \/ \E r \in Requests("claim_can_claim") : claim_item_can_claim(r)
    \/ \E r \in Requests("claim_count") : claim_item_count(r)
    \/ \E r \in Requests("claim_item") : claim_item_insert(r)
    \/ \E r \in Requests("arrived"), url_slug \in Slugs, id \in Ids, form \in ItemForms :
          add_item_lookup(r, url_slug, id, form.name, form.claim_limit,
                          form.require_details)
    \/ \E r \in Requests("add_item") : add_item_insert(r)
    \/ \E r \in Requests("add_item_refresh") : add_item_refresh(r)
    \/ \E r \in Requests("arrived"), url_slug \in Slugs, id \in Ids :
          delete_category_lookup(r, url_slug, id)
    \/ \E r \in Requests("delete_category") : delete_category_load(r)
    \/ \E r \in Requests("delete_commit") : delete_category_commit(r)

RaceSpec == Fixture /\ [][RaceNext]_vars

(***************************************************************************)
(* The function of app/crud.py that writes rows and that no route calls,   *)
(* called directly on rows given as input.  No request reaches it, so it   *)
(* is a step of none of the specifications above.                          *)
(***************************************************************************)
CrudNext ==
    \E claim_id \in Ids, claim_data \in ClaimUpdates : update_claim(claim_id, claim_data)

CrudSpec == Fixture /\ [][CrudNext]_vars

(***************************************************************************)
(* Properties.  A step is recognised as the handler of a request by the    *)
(* action it satisfies; what the handler decided is read in the record     *)
(* that replaces the request, which is the response the browser is sent    *)
(* when the request is answered.                                           *)
(***************************************************************************)
ClaimCount(cl, i) == Cardinality({c \in DOMAIN cl : cl[c].item_id = i})
Blank(text) == strip(text) = <<>>
KnownSlug(url_slug) == \E p \in DOMAIN potlucks : potlucks[p].url_slug = url_slug
Full(item_id) == ClaimCount(claims, item_id) >= items[item_id].claim_limit

\* Request r is the one this step takes a handler step of: its record is
\* replaced, so one copy of it leaves the bag.
Taken(r) == CopiesIn(r, inflight') < CopiesIn(r, inflight)

\* The records that can have replaced request r in this step.
Outcomes(r) == {q \in BagToSet(inflight') : inflight' = Replace(r, q)}

\* Request r is handled in this step, with this status and this flash.
Decided(r, status, flash) ==
    \E q \in Outcomes(r) :
       /\ q.pc = "handled"
       /\ q.response.status = status
       /\ q.response.flash = flash

\* C1 (as claimed): a claim request (known slug) on an item whose claim count
\* has reached its claim_limit is answered with the fully-claimed error and
\* changes no row; a claim request on an item with a free slot, carrying the
\* details the item asks for, succeeds and adds one claim to the item (the
\* two first claims of the example), without taking the count past the
\* claim_limit.
C1_ClaimCapacity ==
    [][\A r \in Requests("arrived"), url_slug \in Slugs, item_id \in DOMAIN items,
          item_details \in Details :
          KnownSlug(url_slug)
          => \/ IF Full(item_id)
                   THEN Decided(r, 303, "error:full") /\ store' = store
                ELSE IF items[item_id].require_details /\ Blank(item_details)
                   THEN claims' = claims
                ELSE /\ Decided(r, 303, "success:claimed")
                     /\ ClaimCount(claims', item_id) = ClaimCount(claims, item_id) + 1
                     /\ ClaimCount(claims', item_id) <= items[item_id].claim_limit
             \/ ~claim_item(r, url_slug, item_id, item_details)]_vars

\* C2 (as claimed): an item-creation request on a category that already holds
\* the max_items submitted for it creates no item.
C2_CategoryCeiling ==
    [][\A r \in Requests("arrived"), url_slug \in Slugs, category_id \in DOMAIN categories,
          form \in ItemForms :
          (/\ max_items[category_id] >= 1
           /\ Cardinality(ItemsOf({category_id})) >= max_items[category_id])
          => \/ /\ items' = items
                /\ \A q \in Outcomes(r) : q.response.status # 303
             \/ ~add_item(r, url_slug, category_id, form.name, form.claim_limit,
                          form.require_details)]_vars

\* C3 (as claimed): every claim on an item with require_details has
\* item_details that are non-empty once trimmed.
C3_DetailsPresent ==
    \A c \in DOMAIN claims :
       (claims[c].item_id \in DOMAIN items /\ items[claims[c].item_id].require_details)
          => ~Blank(claims[c].item_details)

\* The case C4 is about: a claim request with a known slug on an existing item
\* that requires details, with blank details.
C4_Case(url_slug, item_id, item_details) ==
    /\ KnownSlug(url_slug)
    /\ item_id \in DOMAIN items
    /\ items[item_id].require_details
    /\ Blank(item_details)

\* C4 (as claimed): such a request is answered with the missing-details error
\* and changes nothing.
C4_AlwaysMissingDetails ==
    [][\A r \in Requests("arrived"), url_slug \in Slugs, item_id \in Ids,
          item_details \in Details :
          C4_Case(url_slug, item_id, item_details)
          => \/ /\ Decided(r, 303, "error:details")
                /\ store' = store
             \/ ~claim_item(r, url_slug, item_id, item_details)]_vars

\* C4 (amended): the handler of such a request changes no row and decides a
\* redirect carrying an error, which it leaves in the session sent back with
\* the response: the missing-details error when the item has a free claim
\* slot as the handler runs, the fully-claimed error when it has none
\* (capacity is checked first).
C4_RejectedBlankDetails ==
    [][\A r \in Requests("arrived"), url_slug \in Slugs, item_id \in Ids,
          item_details \in Details :
          C4_Case(url_slug, item_id, item_details)
          => \/ /\ store' = store
                /\ \E q \in Outcomes(r) :
                      /\ q.pc = "handled"
                      /\ q.response.status = 303
                      /\ q.response.flash =
                            IF Full(item_id) THEN "error:full" ELSE "error:details"
                      /\ q.sends_cookie
                      /\ q.session = [r.session EXCEPT !.flash = TRUE]
             \/ ~claim_item(r, url_slug, item_id, item_details)]_vars

\* C4 witness: a claim request turned down for its missing details, on an item
\* that requires them and has a free slot, and not answered yet.
C4_Witness ==
    /\ \E q \in Requests("handled") :
          /\ q.response.status = 303
          /\ q.response.flash = "error:details"
          /\ q.session.flash
    /\ \E i \in DOMAIN items : items[i].require_details /\ ~Full(i)

C5_Authorised(request_session, c, verify_name) ==
    /\ request_session.user_session_id # None
    /\ request_session.user_session_id = claims[c].session_id
    /\ lower(strip(claims[c].attendee_name)) = lower(strip(verify_name))

\* C5 (as claimed): the attendee delete removes a claim only when the session
\* holds a token equal to the claim's session_id and the name given equals the
\* claim's attendee_name (both trimmed and lower-cased), and then removes that
\* claim alone; an attempt on an existing claim failing either check changes
\* nothing and ends with the Forbidden status, 403.
C5_AttendeeDelete ==
    [][\A r \in Requests("arrived"), url_slug \in Slugs, c \in Ids,
          verify_name \in VerifyNames :
          \/ /\ <<potlucks, categories, items>>' = <<potlucks, categories, items>>
             /\ claims' # claims
                  => /\ c \in DOMAIN claims
                     /\ C5_Authorised(r.session, c, verify_name)
                     /\ claims' = Restrict(claims, DOMAIN claims \ {c})
             /\ (c \in DOMAIN claims /\ ~C5_Authorised(r.session, c, verify_name))
                  => /\ claims' = claims
                     /\ KnownSlug(url_slug) => Decided(r, 403, NoFlash)
          \/ ~delete_claim_public(r, url_slug, c, verify_name)]_vars

\* C6 (as claimed): a claim request that passes the lookups, the capacity check
\* and the details check persists a claim stamped with the browser's token,
\* which is the token of the request's session when it had one and is in the
\* session sent back with the response.
C6_ClaimStamped ==
    [][\A r \in Requests("arrived"), url_slug \in Slugs, item_id \in DOMAIN items,
          item_details \in Details :
          (/\ claim_item(r, url_slug, item_id, item_details)
           /\ KnownSlug(url_slug)
           /\ ~Full(item_id)
           /\ ~(items[item_id].require_details /\ Blank(item_details)))
          => \E q \in Outcomes(r) :
                /\ q.sends_cookie
                /\ q.session.user_session_id # None
                /\ r.session.user_session_id # None
                      => q.session.user_session_id = r.session.user_session_id
                /\ \E c \in DOMAIN claims' \ DOMAIN claims :
                      /\ claims'[c].item_id = item_id
                      /\ claims'[c].session_id = q.session.user_session_id]_vars

\* The slug of the potluck an item belongs to.
SlugOfItem(i) == potlucks[categories[items[i].category_id].potluck_id].url_slug

\* A step that is an admin delete of the claim or of a row above it.
C7_AdminDelete(c) ==
    \E r \in Requests("arrived") :
       /\ r.session.is_admin
       /\ \/ \E url_slug \in Slugs :
                \/ delete_claim_admin(r, url_slug, c)
                \/ delete_item(r, url_slug, claims[c].item_id)
                \/ delete_category(r, url_slug, items[claims[c].item_id].category_id)
          \/ delete_potluck(r, SlugOfItem(claims[c].item_id))

\* C7: a claim with a NULL session_id is never removed by the attendee delete,
\* whatever the token and the name of the request; when it goes, an admin
\* delete of it, of its item, of its category or of its potluck took it.
C7_NullSessionKept ==
    [][\A c \in DOMAIN claims :
          claims[c].session_id = None
             => /\ \/ c \in DOMAIN claims' /\ claims'[c] = claims[c]
                   \/ ~\E r \in Requests("arrived"), url_slug \in Slugs, id \in Ids,
                           verify_name \in VerifyNames :
                           delete_claim_public(r, url_slug, id, verify_name)
                /\ c \notin DOMAIN claims' => C7_AdminDelete(c)]_vars

\* C7 witness: the attendee delete of a request that carries a token turned
\* down, when every claim there is has a NULL session_id.
C7_Witness ==
    /\ DOMAIN claims # {}
    /\ \A c \in DOMAIN claims : claims[c].session_id = None
    /\ \E q \in Requests("handled") :
          /\ q.response.flash = "error:own"
          /\ q.session.user_session_id # None

\* C8 (as claimed): no row is an orphan, and a delete of a potluck, a category
\* or an item removes exactly the row and the rows beneath it.
NoOrphans ==
    /\ \A c \in DOMAIN categories : categories[c].potluck_id \in DOMAIN potlucks
    /\ \A i \in DOMAIN items : items[i].category_id \in DOMAIN categories
    /\ \A c \in DOMAIN claims : claims[c].item_id \in DOMAIN items

Removed(ps, cs, is) ==
    /\ potlucks'   = Restrict(potlucks, DOMAIN potlucks \ ps)
    /\ categories' = Restrict(categories, DOMAIN categories \ cs)
    /\ items'      = Restrict(items, DOMAIN items \ is)
    /\ claims'     = Restrict(claims, {c \in DOMAIN claims : claims[c].item_id \notin is})

C8_CascadeStep ==
    \A r \in Requests("arrived") :
       r.session.is_admin
       => /\ \A url_slug \in Slugs :
                KnownSlug(url_slug)
                => \/ LET ps == {p \in DOMAIN potlucks : potlucks[p].url_slug = url_slug}
                          cs == {c \in DOMAIN categories : categories[c].potluck_id \in ps}
                      IN  Removed(ps, cs, {i \in DOMAIN items : items[i].category_id \in cs})
                   \/ ~delete_potluck(r, url_slug)
          /\ \A id \in DOMAIN categories :
                \/ Removed({}, {id}, {i \in DOMAIN items : items[i].category_id = id})
                \/ ~\E url_slug \in Slugs : delete_category(r, url_slug, id)
          /\ \A id \in DOMAIN items :
                \/ Removed({}, {}, {id})
                \/ ~\E url_slug \in Slugs : delete_item(r, url_slug, id)

C8_CommitStep ==
    \A r \in Requests("delete_commit") :
       \/ Removed({}, {r.args.id}, {i \in DOMAIN items : items[i].category_id = r.args.id})
       \/ ~delete_category_commit(r)

C8_Cascade == []NoOrphans /\ [][C8_CascadeStep /\ C8_CommitStep]_vars

\* C9: generate_url_slug returns a slug no potluck has as it checks; no two
\* potlucks ever share a url_slug; a row that enters the potlucks table
\* carries a slug no potluck had and no step changes the slug of a row.
UniqueSlugs ==
    \A p, q \in DOMAIN potlucks : potlucks[p].url_slug = potlucks[q].url_slug => p = q

C9_CreateStep ==
    /\ \A r \in Requests("arrived"), name \in NameLengths :
          \/ \A q \in Outcomes(r) : q.pc = "create_potluck" => ~KnownSlug(q.args.slug)
          \/ ~create_potluck_draw(r, name)
    /\ \A p \in DOMAIN potlucks' :
          IF p \in DOMAIN potlucks THEN potlucks'[p] = potlucks[p]
          ELSE ~KnownSlug(potlucks'[p].url_slug)

C9_UniqueSlugs == []UniqueSlugs /\ [][C9_CreateStep]_vars

\* C9 witness: a second potluck was created beside the first and its creation
\* is about to be answered with the redirect to its slug.
C9_Witness ==
    /\ Cardinality(DOMAIN potlucks) = 2
    /\ \E q \in Requests("handled") :
          /\ q.response.status = 303
          /\ \E p \in DOMAIN potlucks : potlucks[p].url_slug = q.response.slug

\* A step that starts the handling of r by an admin-only route.
C10_AdminOnly(r) ==
    \/ admin_dashboard(r)
    \/ show_create_potluck(r)
    \/ \E name \in NameLengths : create_potluck(r, name) \/ create_potluck_draw(r, name)
    \/ \E url_slug \in Slugs :
          \/ show_edit_potluck(r, url_slug)
          \/ \E name \in NameLengths :
                \/ update_potluck(r, url_slug, name)
                \/ update_potluck_lookup(r, url_slug, name)
                \/ add_category(r, url_slug, name)
          \/ delete_potluck(r, url_slug)
          \/ delete_potluck_lookup(r, url_slug)
          \/ \E id \in Ids :
                \/ \E form \in CategoryForms :
                      update_category(r, url_slug, id, form.name, form.max_items)
                \/ \E form \in ItemForms :
                      \/ add_item(r, url_slug, id, form.name, form.claim_limit,
                                  form.require_details)
                      \/ update_item(r, url_slug, id, form.name, form.claim_limit,
                                     form.require_details)
                \/ delete_category(r, url_slug, id)
                \/ delete_item(r, url_slug, id)
                \/ delete_claim_admin(r, url_slug, id)

\* C10: the handler of a login with the admin secret sends back an admin
\* session, and one with another secret sends back no capability the
\* request did not carry; a browser that is sent an admin session holds it,
\* and a request carries the session its browser holds as it arrives; an
\* admin-only request that carries no admin session gets 403 and changes no
\* row, one that carries an admin session is never answered 403, and the
\* dashboard asked for with an admin session is rendered.
C10_AdminCapability ==
    [][/\ \A r \in {t \in Requests("arrived") : Taken(t)} :
             /\ \A password \in Passwords :
                   \/ \E q \in Outcomes(r) :
                         /\ q.pc = "handled"
                         /\ IF password = admin_password
                               THEN /\ q.response.status = 303
                                    /\ q.sends_cookie
                                    /\ q.session.is_admin
                               ELSE /\ q.response.status = 200
                                    /\ q.session.is_admin => r.session.is_admin
                   \/ ~admin_login(r, password)
             /\ \/ ~r.session.is_admin
                \/ \E q \in Outcomes(r) :
                      /\ q.response.status = 200
                      /\ q.response.template = "admin/dashboard.html"
                \/ ~admin_dashboard(r)
             /\ \/ IF r.session.is_admin
                      THEN \A q \in Outcomes(r) : q.response.status # 403
                      ELSE /\ Decided(r, 403, NoFlash)
                           /\ <<store, max_items>>' = <<store, max_items>>
                \/ ~C10_AdminOnly(r)
       /\ \A q \in Requests("handled") :
             \/ q.sends_cookie /\ q.session.is_admin => session'[q.b].is_admin
             \/ ~answer(q)
       /\ \A b \in Browsers :
             \/ \E q \in BagToSet(inflight') :
                   /\ q.pc = "arrived"
                   /\ q.session = session[b]
                   /\ CopiesIn(q, inflight') = CopiesIn(q, inflight) + 1
             \/ ~arrive(b)
       /\ \A q \in BagToSet(inflight') :
             (q.pc = "handled" /\ q.response.status = 403) => ~q.session.is_admin]_vars

\* C10 witness: the dashboard rendered for a request that carried the admin
\* session a login left in the cookie.
C10_Witness ==
    \E q \in Requests("handled") :
       /\ q.response.status = 200
       /\ q.response.template = "admin/dashboard.html"
       /\ q.session.is_admin
       /\ session[q.b].is_admin

\* Two requests have both passed the capacity check of a claim request on the
\* same item and neither has reached its insert yet.
RacePair(r, v) ==
    /\ At(r, "claim_item") /\ At(v, "claim_item")
    /\ r # v \/ CopiesIn(r, inflight) > 1
    /\ r.args.id = v.args.id

\* C11 (as claimed): of two interleaved claim requests that both passed the
\* capacity check on one item, each goes on to commit its claim, taking the
\* item's count past its claim_limit when one slot was free.
C11_RacingInsertsCommit ==
    [][\A r \in Requests("claim_item") :
          ((\E v \in Requests("claim_item") : RacePair(r, v)) /\ claim_item_insert(r))
             => ClaimCount(claims', r.args.id) = ClaimCount(claims, r.args.id) + 1]_vars

\* C12 (as claimed): a potluck creation whose slug was unused at its check but
\* is taken when it commits still completes, inserting its potluck with
\* another, unused slug instead of failing.
C12_RetryAfterCollision ==
    [][\A r \in Requests("create_potluck") :
          (KnownSlug(r.args.slug) /\ create_potluck_commit(r))
             => /\ \A q \in Outcomes(r) : q.response.status # 500
                /\ \E p \in DOMAIN potlucks' \ DOMAIN potlucks :
                      ~KnownSlug(potlucks'[p].url_slug)]_vars

C13_NotFound(r) ==
    /\ Decided(r, 404, NoFlash)
    /\ <<store, max_items>>' = <<store, max_items>>

C13_Unknown(url_slug, table, id) == ~KnownSlug(url_slug) \/ id \notin DOMAIN table

\* C13 (as claimed): a request whose path names an unknown slug or an unknown
\* category, item or claim id (sent with an admin session when the route is
\* admin-only) is answered 404 and changes no row.
C13_UnknownIsNotFound ==
    [][\A r \in Requests("arrived"), url_slug \in Slugs, id \in Ids :
          /\ \A name \in NameLengths :
                /\ (update_potluck(r, url_slug, name) /\ r.session.is_admin
                    /\ ~KnownSlug(url_slug)) => C13_NotFound(r)
                /\ (add_category(r, url_slug, name) /\ r.session.is_admin
                    /\ ~KnownSlug(url_slug)) => C13_NotFound(r)
          /\ (delete_potluck(r, url_slug) /\ r.session.is_admin
              /\ ~KnownSlug(url_slug)) => C13_NotFound(r)
          /\ \A form \in CategoryForms :
                (update_category(r, url_slug, id, form.name, form.max_items)
                 /\ r.session.is_admin
                 /\ C13_Unknown(url_slug, categories, id)) => C13_NotFound(r)
          /\ (delete_category(r, url_slug, id) /\ r.session.is_admin
              /\ C13_Unknown(url_slug, categories, id)) => C13_NotFound(r)
          /\ \A form \in ItemForms :
                /\ (add_item(r, url_slug, id, form.name, form.claim_limit,
                             form.require_details)
                    /\ r.session.is_admin
                    /\ C13_Unknown(url_slug, categories, id)) => C13_NotFound(r)
                /\ (update_item(r, url_slug, id, form.name, form.claim_limit,
                                form.require_details)
                    /\ r.session.is_admin
                    /\ C13_Unknown(url_slug, items, id)) => C13_NotFound(r)
          /\ (delete_item(r, url_slug, id) /\ r.session.is_admin
              /\ C13_Unknown(url_slug, items, id)) => C13_NotFound(r)
          /\ (delete_claim_admin(r, url_slug, id) /\ r.session.is_admin
              /\ C13_Unknown(url_slug, claims, id)) => C13_NotFound(r)
          /\ (view_potluck(r, url_slug) /\ ~KnownSlug(url_slug)) => C13_NotFound(r)
          /\ \A item_details \in Details :
                (claim_item(r, url_slug, id, item_details)
                 /\ C13_Unknown(url_slug, items, id)) => C13_NotFound(r)
          /\ \A verify_name \in VerifyNames :
                (delete_claim_public(r, url_slug, id, verify_name)
                 /\ C13_Unknown(url_slug, claims, id)) => C13_NotFound(r)]_vars

\* C14 (as claimed): once a browser's session holds an attendee token, no
\* request removes or changes it.
C14_TokenKept ==
    [][\A b \in Browsers :
          session[b].user_session_id # None
             => session'[b].user_session_id = session[b].user_session_id]_vars

\* C15 (as claimed): a public claim or claim-delete request addressed to an
\* existing potluck's slug, whose item or claim belongs to another potluck,
\* changes nothing.
C15_ScopedToPotluck ==
    [][\A r \in Requests("arrived"), url_slug \in Slugs, id \in Ids :
          /\ \A item_details \in Details :
                (/\ claim_item(r, url_slug, id, item_details)
                 /\ KnownSlug(url_slug)
                 /\ id \in DOMAIN items
                 /\ SlugOfItem(id) # url_slug) => store' = store
          /\ \A verify_name \in VerifyNames :
                (/\ delete_claim_public(r, url_slug, id, verify_name)
                 /\ KnownSlug(url_slug)
                 /\ id \in DOMAIN claims
                 /\ SlugOfItem(claims[id].item_id) # url_slug) => store' = store]_vars

\* C16: an admin update_item on an existing item with a form in range is
\* accepted whatever the number of claims held, sets that claim_limit and
\* removes no claim; the handler of a claim request on an item holding
\* claim_limit claims or more finds it full at its capacity check, decides
\* the fully-claimed error and changes nothing; and no step of any other
\* route adds a claim to such an item.
C16_LoweredLimit ==
    [][/\ \A r \in Requests("arrived"), item_id \in DOMAIN items, form \in ItemForms :
             (/\ r.session.is_admin
              /\ valid_name(form.name)
              /\ valid_claim_limit(form.claim_limit))
             => \/ /\ Decided(r, 303, NoFlash)
                   /\ DOMAIN items' = DOMAIN items
                   /\ items'[item_id].claim_limit = form.claim_limit
                   /\ claims' = claims
                \/ ~\E url_slug \in Slugs :
                       update_item(r, url_slug, item_id, form.name, form.claim_limit,
                                   form.require_details)
       /\ \A r \in Requests("arrived"), url_slug \in Slugs, item_id \in DOMAIN items :
             (KnownSlug(url_slug) /\ Full(item_id))
             => \/ /\ Decided(r, 303, "error:full")
                   /\ store' = store
                \/ ~\E item_details \in Details :
                       claim_item(r, url_slug, item_id, item_details)
       /\ \A i \in DOMAIN items :
             (Full(i) /\ i \in DOMAIN items')
                => ClaimCount(claims', i) <= ClaimCount(claims, i)]_vars

\* C16 witness: an item holds more claims than its claim_limit, and a claim
\* request was turned down as fully claimed.
C16_Witness ==
    /\ \E i \in DOMAIN items : ClaimCount(claims, i) > items[i].claim_limit
    /\ \E q \in Requests("handled") :
          /\ q.response.status = 303
          /\ q.response.flash = "error:full"

====
